---- MODULE Spec2Model ----
(***************************************************************************)
(* Model of scriptit/shape.py: progress_bar, box, table and the helpers    *)
(* _printed_len, _word_wrap_to_len and _make_hline.                        *)
(*                                                                         *)
(* A Python str is a sequence of one-character strings.  A multi-line      *)
(* result ("...\n...\n") is the sequence of its lines, each without its    *)
(* terminating "\n".  A call that returns v leaves ret = [val |-> v], a call  *)
(* that raises leaves ret = [exc |-> name].                                *)
(***************************************************************************)
EXTENDS Integers, Sequences, FiniteSets, TLC

VARIABLES
    pc,     \* position of the running call
    args,   \* arguments of the top-level call (and the terminal's width)
    loc,    \* locals of the top-level function (progress_bar, box, table)
    wrap,   \* parameters and locals of the running _word_wrap_to_len
    ret     \* value returned (or exception raised) by the top-level call

vars == <<pc, args, loc, wrap, ret>>

(***************************************************************************)
(* Bounds of the model.                                                    *)
(***************************************************************************)
MaxLineLen == 5      \* longest line handed to _word_wrap_to_len directly
MaxWrapLen == 4      \* largest max_len handed to _word_wrap_to_len directly
MaxTextLen == 4      \* longest text handed to box
MaxBoxWidth == 8     \* largest width handed to box
MaxDen == 4          \* complete_pct = k / n with n <= MaxDen
MaxBarWidth == 8     \* largest width handed to progress_bar
MaxCols == 3         \* most columns handed to table
MaxCells == 4        \* most cells, over all columns, handed to table

\* an Optional[int] argument: None, or Some(v)
None == <<>>

Some(v) == <<v>>

\* "if x is None: x = default"
OrElse(opt, default) == IF opt = None THEN default ELSE opt[1]

\* no locals yet, nothing returned yet
NoValue == [none |-> TRUE]

(***************************************************************************)
(* Python built-ins used by the module.                                    *)
(***************************************************************************)
Abs(x) == IF x < 0 THEN -x ELSE x

Max2(a, b) == IF a >= b THEN a ELSE b

Min2(a, b) == IF a <= b THEN a ELSE b

\* char * n: the empty string when n <= 0
Rep(ch, n) == [i \in 1..n |-> ch]

\* s[:n] for n >= 0
Take(s, n) == SubSeq(s, 1, Min2(n, Len(s)))

\* s[n:] for n >= 0
Drop(s, n) == SubSeq(s, Min2(n, Len(s)) + 1, Len(s))

\* s[:-1]
DropLast(s) == SubSeq(s, 1, Len(s) - 1)

\* int(float(num) / float(den) * 1.0): truncation toward zero, den # 0
Trunc(num, den) ==
    LET q == Abs(num) \div Abs(den)
    IN  IF (num < 0) = (den < 0) THEN q ELSE -q

RECURSIVE IndexOf(_, _, _)
\* position of the first ch in s at or after i, 0 when there is none
IndexOf(s, ch, i) ==
    IF i > Len(s) THEN 0
    ELSE IF s[i] = ch THEN i
    ELSE IndexOf(s, ch, i + 1)

RECURSIVE Split(_, _)
\* s.split(sep) for a one-character sep
Split(s, sep) ==
    LET i == IndexOf(s, sep, 1)
    IN  IF i = 0 THEN <<s>>
        ELSE <<SubSeq(s, 1, i - 1)>> \o Split(SubSeq(s, i + 1, Len(s)), sep)

RECURSIVE Join(_, _)
\* sep.join(parts)
Join(parts, sep) ==
    IF parts = <<>> THEN <<>>
    ELSE IF Len(parts) = 1 THEN parts[1]
    ELSE parts[1] \o sep \o Join(Tail(parts), sep)

RECURSIVE SumSeq(_)
SumSeq(s) == IF s = <<>> THEN 0 ELSE s[1] + SumSeq(Tail(s))

RECURSIVE MaxSeq(_)
\* max(s) of a non-empty sequence of integers
MaxSeq(s) == IF Len(s) = 1 THEN s[1] ELSE Max2(s[1], MaxSeq(Tail(s)))

\* all strings over alphabet A of length at most n
Strings(A, n) == UNION {[1..k -> A] : k \in 0..n}

(***************************************************************************)
(* color.decolorize and _printed_len.  A colour code is a run of           *)
(* non-printed characters; NonPrinted is the set of them.                  *)
(***************************************************************************)
NonPrinted == {"\\e"}

IsPrinted(ch) == ch \notin NonPrinted

decolorize(x) == SelectSeq(x, IsPrinted)

_printed_len(x) == Len(decolorize(x))

\* [_printed_len(x) for x in lines]
Lens(lines) == [i \in 1..Len(lines) |-> _printed_len(lines[i])]

(***************************************************************************)
(* _word_wrap_to_len.                                                      *)
(***************************************************************************)
RECURSIVE WrapInnerNoHyphenRoom(_, _, _)
\* WrapInner with the forced break cut at max_len - len(subline), leaving no
\* room for the hyphen
WrapInnerNoHyphenRoom(subline, words, max_len) ==
    IF words = <<>> THEN [subline |-> subline, words |-> words]
    ELSE IF _printed_len(subline) + _printed_len(words[1]) <= max_len
        THEN WrapInnerNoHyphenRoom(subline \o words[1] \o <<" ">>, Tail(words),
                                   max_len)
    ELSE IF _printed_len(words[1]) > max_len
        THEN LET cutoff == max_len - _printed_len(subline)
             IN  IF cutoff <= 0
                 THEN [subline |-> subline, words |-> words]
                 ELSE WrapInnerNoHyphenRoom(
                          subline \o Take(words[1], cutoff) \o <<"-", " ">>,
                          <<Drop(words[1], cutoff)>> \o Tail(words),
                          max_len)
    ELSE [subline |-> subline, words |-> words]

RECURSIVE WrapInner(_, _, _)
\* lines 186-198, the inner while loop: pack words into subline until one does not fit
WrapInner(subline, words, max_len) ==
    IF words = <<>> THEN [subline |-> subline, words |-> words]
    ELSE IF _printed_len(subline) + _printed_len(words[1]) <= max_len
        THEN WrapInner(subline \o words[1] \o <<" ">>, Tail(words), max_len)
    ELSE IF _printed_len(words[1]) > max_len
        THEN LET cutoff == max_len - _printed_len(subline) - 1
             IN  IF cutoff <= 0
                 THEN [subline |-> subline, words |-> words]
                 ELSE WrapInner(subline \o Take(words[1], cutoff) \o <<"-", " ">>,
                                <<Drop(words[1], cutoff)>> \o Tail(words),
                                max_len)
    ELSE [subline |-> subline, words |-> words]

\* WrapPass without line 199: the trailing space stays on the subline
WrapPassKeepSpace(w, max_len) ==
    LET r == WrapInner(<<>>, w.words, max_len)
        subline == r.subline
    IN  [words |-> r.words,
         sublines |-> Append(w.sublines, subline),
         longest |-> Max2(w.longest, _printed_len(subline))]

\* lines 185-201, one pass of the outer while loop over the locals
\* w = [words, sublines, longest]
WrapPass(w, max_len) ==
    LET r == WrapInner(<<>>, w.words, max_len)
        subline == DropLast(r.subline)
    IN  [words |-> r.words,
         sublines |-> Append(w.sublines, subline),
         longest |-> Max2(w.longest, _printed_len(subline))]

\* the locals on entry to the else branch
WrapStart(line) == [words |-> Split(line, " "), sublines |-> <<>>, longest |-> 0]

\* The outer loop appends one subline per pass.  A line of the model that is
\* wrapped to completion yields fewer sublines than this; the model stops a
\* loop that has appended this many.
MaxSublines == MaxLineLen + MaxTextLen + 2

RECURSIVE WrapLoop(_, _)
\* lines 184-202: the outer while loop run to its end
WrapLoop(w, max_len) ==
    IF w.words = <<>> \/ Len(w.sublines) >= MaxSublines
    THEN [sublines |-> w.sublines, longest |-> w.longest]
    ELSE WrapLoop(WrapPass(w, max_len), max_len)

\* lines 178-202: the whole function in one evaluation, as table calls it
_word_wrap_to_len(line, max_len) ==
    IF _printed_len(line) <= max_len
    THEN [sublines |-> <<line>>, longest |-> _printed_len(line)]
    ELSE WrapLoop(WrapStart(line), max_len)

NoWrap == [line |-> <<>>, max_len |-> 0, words |-> <<>>, sublines |-> <<>>,
           longest |-> 0]

\* lines 178-183
WrapEnter ==
    /\ pc = "wrap_call"
    /\ IF _printed_len(wrap.line) <= wrap.max_len
       THEN /\ pc' = "wrap_done"
            /\ wrap' = [wrap EXCEPT !.sublines = <<wrap.line>>,
                                    !.longest = _printed_len(wrap.line)]
       ELSE /\ pc' = "wrap_loop"
            /\ wrap' = [wrap EXCEPT !.words = WrapStart(wrap.line).words,
                                    !.sublines = <<>>,
                                    !.longest = 0]
    /\ UNCHANGED <<args, loc, ret>>

\* lines 184-201, one pass of the outer loop
WrapOuterPass ==
    /\ pc = "wrap_loop"
    /\ wrap.words # <<>>
    /\ Len(wrap.sublines) < MaxSublines
    /\ LET w == WrapPass(wrap, wrap.max_len)
       IN  wrap' = [wrap EXCEPT !.words = w.words,
                                !.sublines = w.sublines,
                                !.longest = w.longest]
    /\ UNCHANGED <<pc, args, loc, ret>>

\* line 184 (loop exit) and line 202
WrapExit ==
    /\ pc = "wrap_loop"
    /\ wrap.words = <<>>
    /\ pc' = "wrap_done"
    /\ UNCHANGED <<args, loc, wrap, ret>>

\* a direct call returns to its caller
WrapReturn ==
    /\ pc = "wrap_done"
    /\ args.op = "_word_wrap_to_len"
    /\ pc' = "done"
    /\ ret' = [val |-> [sublines |-> wrap.sublines, longest |-> wrap.longest]]
    /\ UNCHANGED <<args, loc, wrap>>

WrapAlphabet == {"a", " "}

InitWrap ==
    /\ pc = "wrap_call"
    /\ \E line \in Strings(WrapAlphabet, MaxLineLen), max_len \in -1..MaxWrapLen :
          /\ args = [op |-> "_word_wrap_to_len", line |-> line, max_len |-> max_len]
          /\ wrap = [NoWrap EXCEPT !.line = line, !.max_len = max_len]
    /\ loc = NoValue
    /\ ret = NoValue

NextWrap == WrapEnter \/ WrapOuterPass \/ WrapExit \/ WrapReturn

SpecWrap == InitWrap /\ [][NextWrap]_vars

(***************************************************************************)
(* box.                                                                    *)
(***************************************************************************)
\* BoxLongest without the max: the last raw line's length wins
BoxLongestLast(longest, longest_subline_len) == longest_subline_len

\* line 62
BoxLongest(longest, longest_subline_len) == Max2(longest, longest_subline_len)

\* lines 65-66: one framed content line
BoxLine(char, line, longest) ==
    LET padding == Rep(" ", longest - _printed_len(line))
    IN  char \o <<" ">> \o line \o padding \o <<" ">> \o char

\* lines 63 and 67: char * (longest + 4)
BoxBorder(char, longest) == Join(Rep(char, longest + 4), <<>>)

\* lines 63-68
BoxOut(char, lines, longest) ==
    <<BoxBorder(char, longest)>>
    \o [i \in 1..Len(lines) |-> BoxLine(char, lines[i], longest)]
    \o <<BoxBorder(char, longest)>>

\* lines 52-58
BoxEnter ==
    /\ pc = "box_call"
    /\ LET width == OrElse(args.width, args.terminal)
       IN  loc' = [raw_lines |-> Split(args.x, "\n"),
                   lines |-> <<>>,
                   longest |-> 0,
                   max_len |-> width - 4,
                   i |-> 1]
    /\ pc' = "box_loop"
    /\ UNCHANGED <<args, wrap, ret>>

\* lines 59-60: the call of _word_wrap_to_len for the next raw line
BoxCallWrap ==
    /\ pc = "box_loop"
    /\ loc.i <= Len(loc.raw_lines)
    /\ wrap' = [NoWrap EXCEPT !.line = loc.raw_lines[loc.i], !.max_len = loc.max_len]
    /\ pc' = "wrap_call"
    /\ UNCHANGED <<args, loc, ret>>

\* lines 60-62: the call returned
BoxAfterWrap ==
    /\ pc = "wrap_done"
    /\ args.op = "box"
    /\ loc' = [loc EXCEPT !.lines = loc.lines \o wrap.sublines,
                          !.longest = BoxLongest(loc.longest, wrap.longest),
                          !.i = loc.i + 1]
    /\ pc' = "box_loop"
    /\ UNCHANGED <<args, wrap, ret>>

\* lines 63-68
BoxEmit ==
    /\ pc = "box_loop"
    /\ loc.i > Len(loc.raw_lines)
    /\ ret' = [val |-> BoxOut(args.char, loc.lines, loc.longest)]
    /\ pc' = "done"
    /\ UNCHANGED <<args, loc, wrap>>

BoxAlphabet == {"a", " ", "\n"}

FrameChars == {<<"#">>, <<"*", "*">>}

BoxTerminals == {7}

InitBox ==
    /\ pc = "box_call"
    /\ \E x \in Strings(BoxAlphabet, MaxTextLen), char \in FrameChars,
          width \in {None} \cup {Some(w) : w \in 0..MaxBoxWidth}, terminal \in BoxTerminals :
          args = [op |-> "box", x |-> x, char |-> char, width |-> width,
                  terminal |-> terminal]
    /\ loc = NoValue
    /\ wrap = NoWrap
    /\ ret = NoValue

NextBox ==
    \/ BoxEnter
    \/ BoxCallWrap
    \/ WrapEnter
    \/ WrapOuterPass
    \/ WrapExit
    \/ BoxAfterWrap
    \/ BoxEmit

SpecBox == InitBox /\ [][NextBox]_vars

(***************************************************************************)
(* progress_bar.  complete_pct is the fraction k / n.                      *)
(***************************************************************************)
\* line 34: int((width - 3) * complete_pct)
BarDone(width, k, n) == Trunc((width - 3) * k, n)

\* BarUndone that forgets the head's slot
BarUndoneNoHead(width, n_done) == width - 2 - n_done

\* line 35
BarUndone(width, n_done) == width - 3 - n_done

\* line 36
BarOut(done_char, undone_char, head_char, n_done, n_undone) ==
    <<"[">> \o Join(Rep(done_char, n_done), <<>>) \o head_char
    \o Join(Rep(undone_char, n_undone), <<>>) \o <<"]">>

\* lines 29-36
ProgressBar ==
    /\ pc = "bar_call"
    /\ pc' = "done"
    /\ IF \/ Len(args.done_char) # 1
          \/ Len(args.undone_char) # 1
          \/ Len(args.head_char) # 1
       THEN /\ ret' = [exc |-> "AssertionError"]
            /\ loc' = loc
       ELSE LET width == OrElse(args.width, args.terminal)
                n_done == BarDone(width, args.k, args.n)
                n_undone == BarUndone(width, n_done)
            IN  /\ loc' = [width |-> width, n_done |-> n_done, n_undone |-> n_undone]
                /\ ret' = [val |-> BarOut(args.done_char, args.undone_char,
                                          args.head_char, n_done, n_undone)]
    /\ UNCHANGED <<args, wrap>>

BarTerminals == {5}

InitBar ==
    /\ pc = "bar_call"
    /\ \E n \in 1..MaxDen, width \in {None} \cup {Some(w) : w \in 0..MaxBarWidth},
          done_char \in {<<"=">>, <<"=", "=">>}, undone_char \in {<<"-">>},
          head_char \in {<<">">>, <<>>}, terminal \in BarTerminals :
          \E k \in 0..(n + 1) :
             args = [op |-> "progress_bar", k |-> k, n |-> n, width |-> width,
                     done_char |-> done_char, undone_char |-> undone_char,
                     head_char |-> head_char, terminal |-> terminal]
    /\ loc = NoValue
    /\ wrap = NoWrap
    /\ ret = NoValue

NextBar == ProgressBar

SpecBar == InitBar /\ [][NextBar]_vars

(***************************************************************************)
(* table.  Columns and rows are numbered from 1 (Python's i is i + 1 here). *)
(***************************************************************************)
\* _make_hline that counts one edge only
_make_hline_one_edge(table_width, char, edge) ==
    <<edge>> \o Rep(char, table_width - 1) \o <<edge>>

\* _make_hline, lines 205-206
_make_hline(table_width, char, edge) ==
    <<edge>> \o Rep(char, table_width - 2) \o <<edge>>

\* lines 96-97
TableMinWidth(n_columns, width, min_width) ==
    IF min_width # None THEN min_width[1]
    ELSE IF width = None THEN 2 * n_columns + 1
    ELSE width[1]

\* lines 101-104
TableWidths(columns, max_width) ==
    LET max_col_width == max_width - 3 - 2 * (Len(columns) - 1)
    IN  [c \in 1..Len(columns) |-> Min2(MaxSeq(Lens(columns[c])), max_col_width)]

\* line 106
TableTotalWidth(widths) == SumSeq([c \in 1..Len(widths) |-> widths[c] + 3]) + 1

\* line 107
TableWidth(total_width, max_width, min_width) ==
    Max2(Min2(total_width, max_width), min_width)

\* lines 110-112, for at least one column and total_width # 0.
\* int(float(w) / float(total_width) * usable_table_width) is modelled as the
\* exact quotient truncated toward zero; the two agree on every
\* (w, total_width, usable_table_width) this model reaches.
TableColWidths(widths, total_width, usable_table_width) ==
    LET n == Len(widths)
        first == [c \in 1..n |-> Trunc(widths[c] * usable_table_width, total_width) + 3]
    IN  [c \in 1..n |->
            IF c < n THEN first[c]
            ELSE usable_table_width - SumSeq(SubSeq(first, 1, n - 1))]

\* line 114: the (i, w) with w - 2 < 2, in column order
TableCollapsed(col_widths) ==
    LET flagged == SelectSeq([c \in 1..Len(col_widths) |-> <<c, col_widths[c]>>],
                             LAMBDA iw : iw[2] - 2 < 2)
    IN  flagged

RECURSIVE InsertByWidth(_, _)
InsertByWidth(x, s) ==
    IF s = <<>> THEN <<x>>
    ELSE IF x[1] < s[1][1] THEN <<x>> \o s
    ELSE <<s[1]>> \o InsertByWidth(x, Tail(s))

RECURSIVE SortedByWidth(_)
\* sorted(s, key=lambda x: x[0]): stable, ascending in the first component
SortedByWidth(s) ==
    IF s = <<>> THEN <<>>
    ELSE InsertByWidth(s[Len(s)], SortedByWidth(SubSeq(s, 1, Len(s) - 1)))

\* lines 115-118: the (w, i) of the columns not flagged, sorted by w
TableExtra(col_widths) ==
    SortedByWidth(SelectSeq([c \in 1..Len(col_widths) |-> <<col_widths[c], c>>],
                            LAMBDA wi : ~(wi[1] - 2 < 2)))

\* line 121
TablePadding(w) == 2 - w

\* lines 122-123: the two assignments of one transfer
TableTransferred(col_widths, extra, i, w) ==
    LET padding == TablePadding(w)
        donor == [col_widths EXCEPT ![extra[1][2]] = extra[1][1] - padding]
    IN  [donor EXCEPT ![i] = w + padding]

\* TableColumnUsable that lets through every width with room for its padding
TableColumnUsableNoContent(col_width) == col_width - 2 >= 0

\* line 130: the asserted condition
TableColumnUsable(col_width) == col_width - 2 > 1

\* lines 129-132, for columns that pass the assertion of line 130
TableWrapped(columns, col_widths) ==
    [c \in 1..Len(columns) |->
        [r \in 1..Len(columns[c]) |->
            _word_wrap_to_len(columns[c][r], col_widths[c] - 2).sublines]]

\* lines 140-146: physical line i of a row
TableCellLine(entries, col_widths, i) ==
    Join([c \in 1..Len(entries) |->
            LET val == IF Len(entries[c]) >= i THEN entries[c][i] ELSE <<>>
            IN  <<"|", " ">> \o val
                \o Rep(" ", col_widths[c] - _printed_len(val) - 2)],
         <<>>)
    \o <<"|">>

\* lines 137-147: the physical lines of row r
TableRowLines(wrapped_cols, col_widths, r) ==
    LET entries == [c \in 1..Len(wrapped_cols) |->
                       IF r <= Len(wrapped_cols[c]) THEN wrapped_cols[c][r]
                       ELSE << <<>> >>]
        most_sublines == MaxSeq([c \in 1..Len(entries) |-> Len(entries[c])])
    IN  [i \in 1..most_sublines |-> TableCellLine(entries, col_widths, i)]

\* TableDivider with the final-row test first: a single row is closed by the
\* "+"-edged border
TableDividerLastFirst(r, n_rows, table_width, header, row_dividers) ==
    IF r - 1 = n_rows - 1
    THEN <<_make_hline(table_width, "-", "+")>>
    ELSE IF r - 1 = 0
    THEN IF header THEN <<_make_hline(table_width, "=", "|")>>
         ELSE IF row_dividers THEN <<_make_hline(table_width, "-", "|")>>
         ELSE <<>>
    ELSE IF row_dividers THEN <<_make_hline(table_width, "-", "|")>>
    ELSE <<>>

\* lines 148-157: what follows the lines of row r (Python's r is r - 1)
TableDivider(r, n_rows, table_width, header, row_dividers) ==
    IF r - 1 = 0
    THEN IF header THEN <<_make_hline(table_width, "=", "|")>>
         ELSE IF row_dividers THEN <<_make_hline(table_width, "-", "|")>>
         ELSE <<>>
    ELSE IF r - 1 < n_rows - 1
    THEN IF row_dividers THEN <<_make_hline(table_width, "-", "|")>>
         ELSE <<>>
    ELSE <<_make_hline(table_width, "-", "+")>>

RECURSIVE TableRows(_, _, _, _, _, _, _)
\* lines 136-157: rows r..n_rows
TableRows(wrapped_cols, col_widths, r, n_rows, table_width, header, row_dividers) ==
    IF r > n_rows THEN <<>>
    ELSE TableRowLines(wrapped_cols, col_widths, r)
         \o TableDivider(r, n_rows, table_width, header, row_dividers)
         \o TableRows(wrapped_cols, col_widths, r + 1, n_rows, table_width,
                      header, row_dividers)

\* lines 134-159
TableOut(columns, wrapped_cols, col_widths, table_width, header, row_dividers) ==
    LET n_rows == MaxSeq([c \in 1..Len(columns) |-> Len(columns[c])])
    IN  <<_make_hline(table_width, "-", "+")>>
        \o TableRows(wrapped_cols, col_widths, 1, n_rows, table_width,
                     header, row_dividers)

TableRaise(exc) ==
    /\ pc' = "done"
    /\ ret' = [exc |-> exc]

\* lines 94-118
TableLayout ==
    /\ pc = "table_call"
    /\ LET columns == args.columns
           n == Len(columns)
           max_width == OrElse(args.max_width, args.terminal)
           min_width == TableMinWidth(n, args.width, args.min_width)
       IN  IF \E c \in 1..n : columns[c] = <<>>
           THEN \* line 103: max() of an empty sequence
                TableRaise("ValueError") /\ loc' = loc
           ELSE LET widths == TableWidths(columns, max_width)
                    total_width == TableTotalWidth(widths)
                    table_width == TableWidth(total_width, max_width, min_width)
                    usable_table_width == table_width - 1
                IN  IF n > 0 /\ total_width = 0
                    THEN \* line 110
                         TableRaise("ZeroDivisionError") /\ loc' = loc
                    ELSE IF n = 0
                    THEN \* line 112: col_widths[-1] of an empty list
                         TableRaise("IndexError") /\ loc' = loc
                    ELSE LET col_widths ==
                                 TableColWidths(widths, total_width, usable_table_width)
                         IN  /\ loc' = [max_width |-> max_width,
                                        min_width |-> min_width,
                                        widths |-> widths,
                                        total_width |-> total_width,
                                        table_width |-> table_width,
                                        col_widths |-> col_widths,
                                        collapsed |-> TableCollapsed(col_widths),
                                        extra |-> TableExtra(col_widths),
                                        k |-> 1,
                                        wrapped_cols |-> <<>>]
                             /\ pc' = "table_redistribute"
                             /\ ret' = ret
    /\ UNCHANGED <<args, wrap>>

\* lines 119-124: the loop body for the k-th flagged column
TableTransfer ==
    /\ pc = "table_redistribute"
    /\ loc.k <= Len(loc.collapsed)
    /\ LET i == loc.collapsed[loc.k][1]
           w == loc.collapsed[loc.k][2]
       IN  IF ~(Len(loc.extra) > 0 /\ loc.extra[1][1] - w > 2)
           THEN TableRaise("AssertionError") /\ loc' = loc
           ELSE /\ loc' = [loc EXCEPT
                              !.col_widths = TableTransferred(loc.col_widths, loc.extra, i, w),
                              !.extra = SortedByWidth(loc.extra),
                              !.k = loc.k + 1]
                /\ pc' = pc
                /\ ret' = ret
    /\ UNCHANGED <<args, wrap>>

\* lines 126-132, after the loop of line 119
TableWrapCells ==
    /\ pc = "table_redistribute"
    /\ loc.k > Len(loc.collapsed)
    /\ IF \E c \in 1..Len(args.columns) : ~TableColumnUsable(loc.col_widths[c])
       THEN TableRaise("AssertionError") /\ loc' = loc
       ELSE /\ loc' = [loc EXCEPT
                          !.wrapped_cols = TableWrapped(args.columns, loc.col_widths)]
            /\ pc' = "table_emit"
            /\ ret' = ret
    /\ UNCHANGED <<args, wrap>>

\* lines 134-159
TableEmit ==
    /\ pc = "table_emit"
    /\ ret' = [val |-> TableOut(args.columns, loc.wrapped_cols, loc.col_widths,
                                loc.table_width, args.header, args.row_dividers)]
    /\ pc' = "done"
    /\ UNCHANGED <<args, loc, wrap>>

TableCells == {<<>>, <<"a">>, <<"a", "a", " ", "a", "a", "a", "a">>}

TableTerminals == {16}

TableWidthArgs == {None, Some(12)}

TableMaxWidthArgs == {None, Some(10), Some(-1)}

TableMinWidthArgs == {None, Some(8)}

\* the columns of lens[c] cells each, filled in order from flat
TableColumns(lens, flat) ==
    [c \in 1..Len(lens) |->
        [r \in 1..lens[c] |-> flat[SumSeq(SubSeq(lens, 1, c - 1)) + r]]]

InitTable ==
    /\ pc = "table_call"
    /\ \E n \in 0..MaxCols :
          \E lens \in [1..n -> 0..MaxCells] :
             /\ SumSeq(lens) <= MaxCells
             /\ \E flat \in [1..SumSeq(lens) -> TableCells],
                   width \in TableWidthArgs, max_width \in TableMaxWidthArgs,
                   min_width \in TableMinWidthArgs, header \in BOOLEAN,
                   row_dividers \in BOOLEAN, terminal \in TableTerminals :
                   args = [op |-> "table", columns |-> TableColumns(lens, flat),
                           width |-> width, max_width |-> max_width,
                           min_width |-> min_width, header |-> header,
                           row_dividers |-> row_dividers, terminal |-> terminal]
    /\ loc = NoValue
    /\ wrap = NoWrap
    /\ ret = NoValue

NextTable == TableLayout \/ TableTransfer \/ TableWrapCells \/ TableEmit

SpecTable == InitTable /\ [][NextTable]_vars

(***************************************************************************)
(* Properties.                                                             *)
(***************************************************************************)
Returned(op) == pc = "done" /\ args.op = op /\ "val" \in DOMAIN ret

Raised(op, exc) ==
    pc = "done" /\ args.op = op /\ "exc" \in DOMAIN ret /\ ret.exc = exc

AllTokensFit(line, max_len) ==
    \A i \in 1..Len(Split(line, " ")) : _printed_len(Split(line, " ")[i]) <= max_len

\* C5: whenever _word_wrap_to_len returns, every returned subline has visible
\* length <= max_len (a subline ending in a forced hyphen break included), and
\* the returned longest is the maximum visible length over the returned
\* sublines, hence longest <= max_len.
C5_SublinesWithinMaxLen ==
    Returned("_word_wrap_to_len") =>
        /\ ret.val.sublines # <<>>
        /\ \A i \in 1..Len(ret.val.sublines) :
              _printed_len(ret.val.sublines[i]) <= args.max_len
        /\ ret.val.longest = MaxSeq(Lens(ret.val.sublines))
        /\ ret.val.longest <= args.max_len

\* a returned wrap with a forced hyphen break that fills its subline
C5_Witness ==
    /\ Returned("_word_wrap_to_len")
    /\ Len(ret.val.sublines) >= 2
    /\ args.max_len >= 2
    /\ \E i \in 1..Len(ret.val.sublines) :
          /\ Len(ret.val.sublines[i]) = args.max_len
          /\ ret.val.sublines[i][args.max_len] = "-"

\* C8: when no space-delimited token of the line is longer than max_len,
\* joining the returned sublines with single spaces and splitting again on
\* single spaces yields exactly line.split(" "), empty tokens included.
C8_WrapRoundTrip ==
    (Returned("_word_wrap_to_len") /\ AllTokensFit(args.line, args.max_len)) =>
        Split(Join(ret.val.sublines, <<" ">>), " ") = Split(args.line, " ")

\* a line that had to be wrapped, with an empty token from consecutive spaces
C8_Witness ==
    /\ Returned("_word_wrap_to_len")
    /\ AllTokensFit(args.line, args.max_len)
    /\ Len(ret.val.sublines) >= 2
    /\ \E i \in 1..Len(Split(args.line, " ")) : Split(args.line, " ")[i] = <<>>
    /\ \E i \in 1..Len(Split(args.line, " ")) : Split(args.line, " ")[i] # <<>>

\* C10: _word_wrap_to_len terminates because each pass of the outer loop
\* either consumes at least one token or shortens the first token (also
\* inside box, for widths <= 5).
C10_EachPassMakesProgress ==
    [][(pc = "wrap_loop" /\ pc' = "wrap_loop") =>
          \/ Len(wrap'.words) < Len(wrap.words)
          \/ /\ Len(wrap'.words) = Len(wrap.words)
             /\ Len(wrap'.words[1]) < Len(wrap.words[1])]_vars

\* C6: when box returns for a single-character frame char, the top and bottom
\* border have length longest + 4, longest being the maximum visible length
\* over all wrapped sublines, and every framed content line has that length.
C6_BoxIsRectangular ==
    (Returned("box") /\ Len(args.char) = 1) =>
        /\ Len(ret.val) = Len(loc.lines) + 2
        /\ loc.lines # <<>>
        /\ loc.longest = MaxSeq(Lens(loc.lines))
        /\ Len(ret.val[1]) = loc.longest + 4
        /\ Len(ret.val[Len(ret.val)]) = loc.longest + 4
        /\ \A i \in 2..(Len(ret.val) - 1) :
              /\ Len(ret.val[i]) = loc.longest + 4
              /\ ret.val[i] = args.char \o <<" ">> \o loc.lines[i - 1]
                          \o Rep(" ", loc.longest - Len(loc.lines[i - 1]))
                          \o <<" ">> \o args.char

\* a box over several raw lines, the longest not the last, one of them wrapped
C6_Witness ==
    /\ Returned("box")
    /\ Len(args.char) = 1
    /\ Len(loc.raw_lines) >= 2
    /\ Len(loc.lines) > Len(loc.raw_lines)
    /\ Len(loc.lines[Len(loc.lines)]) < loc.longest

\* C7: for p = k / n in [0, 1] and width >= 3, progress_bar returns
\* "[" + n_done done-chars + the head + n_undone undone-chars + "]" with
\* n_done = floor((width - 3) * p) and n_undone = width - 3 - n_done, both
\* non-negative, so the result has length width; p = 0 gives no done-chars
\* and p = 1 no undone-chars.
C7_ProgressBarLength ==
    (Returned("progress_bar") /\ loc.width >= 3 /\ args.k <= args.n) =>
        /\ loc.n_done >= 0
        /\ loc.n_undone >= 0
        /\ loc.n_done * args.n <= (loc.width - 3) * args.k
        /\ (loc.width - 3) * args.k < (loc.n_done + 1) * args.n
        /\ loc.n_undone = loc.width - 3 - loc.n_done
        /\ Len(ret.val) = loc.width
        /\ ret.val[1] = "["
        /\ ret.val[Len(ret.val)] = "]"
        /\ \A i \in 2..(loc.n_done + 1) : <<ret.val[i]>> = args.done_char
        /\ <<ret.val[loc.n_done + 2]>> = args.head_char
        /\ \A i \in (loc.n_done + 3)..(Len(ret.val) - 1) : <<ret.val[i]>> = args.undone_char
        /\ (args.k = 0 => loc.n_done = 0)
        /\ (args.k = args.n => loc.n_undone = 0)

\* a bar with done-chars and undone-chars, the product not a whole number
C7_Witness ==
    /\ Returned("progress_bar")
    /\ loc.width >= 3
    /\ args.k < args.n
    /\ loc.n_done > 0
    /\ loc.n_undone > 0
    /\ loc.n_done * args.n < (loc.width - 3) * args.k

(***************************************************************************)
(* Properties of table.                                                    *)
(***************************************************************************)
LaidOut == args.op = "table" /\ "table_width" \in DOMAIN loc

n_rows == MaxSeq([c \in 1..Len(args.columns) |-> Len(args.columns[c])])

\* C1: for every call of table that returns, every emitted line (top border,
\* cell lines, "=" and "-" dividers, closing border) has the same visible
\* length, equal to table_width.
C1_TableIsRectangular ==
    Returned("table") =>
        \A i \in 1..Len(ret.val) : _printed_len(ret.val[i]) = loc.table_width

\* a returned table of two columns with a wrapped cell, a "=" divider, a "-"
\* divider between rows and the closing border
C1_Witness ==
    /\ Returned("table")
    /\ Len(args.columns) >= 2
    /\ \E c \in 1..Len(args.columns) : \E r \in 1..Len(args.columns[c]) :
          Len(loc.wrapped_cols[c][r]) >= 2
    /\ \E i \in 1..Len(ret.val) : ret.val[i][1] = "|" /\ ret.val[i][2] = "="
    /\ \E i \in 1..Len(ret.val) : ret.val[i][1] = "|" /\ ret.val[i][2] = "-"
    /\ ret.val[Len(ret.val)][1] = "+"

\* C2: with an explicit width w and neither max_width nor min_width given,
\* the lower and the upper bound of the table width are both w, so table_width
\* (the length of the border lines) is exactly w.
C2_ExplicitWidthIsTableWidth ==
    (Returned("table") /\ args.width # None /\ args.max_width = None
        /\ args.min_width = None) =>
        /\ loc.table_width = args.width[1]
        /\ Len(ret.val[1]) = args.width[1]
        /\ Len(ret.val[Len(ret.val)]) = args.width[1]

\* C3 as stated: with at least one non-empty column, the call either fails
\* with an assertion (layout) error or returns with every column's final
\* allocated width at least 4.
C3_AssertionOrWideColumns ==
    (pc = "done" /\ args.op = "table"
        /\ \E c \in 1..Len(args.columns) : args.columns[c] # <<>>) =>
        \/ Raised("table", "AssertionError")
        \/ /\ Returned("table")
           /\ \A c \in 1..Len(args.columns) : loc.col_widths[c] >= 4

\* C3 as amended: with at least one non-empty column, the call either raises
\* (an assertion error from the layout checks, a ValueError when another
\* column is empty, a ZeroDivisionError when total_width is 0) or returns
\* with every column's final allocated width at least 4, each cell wrapped to
\* that width minus 2.
C3_RaisesOrWideColumns ==
    (pc = "done" /\ args.op = "table"
        /\ \E c \in 1..Len(args.columns) : args.columns[c] # <<>>) =>
        \/ Raised("table", "AssertionError")
        \/ Raised("table", "ValueError")
        \/ Raised("table", "ZeroDivisionError")
        \/ /\ Returned("table")
           /\ \A c \in 1..Len(args.columns) :
                 /\ loc.col_widths[c] >= 4
                 /\ \A r \in 1..Len(args.columns[c]) :
                       \A i \in 1..Len(loc.wrapped_cols[c][r]) :
                          _printed_len(loc.wrapped_cols[c][r][i]) <= loc.col_widths[c] - 2

\* a column was flagged collapsed, the transfer went through, and the call
\* failed on the layout assertion instead of rendering the narrow column
C3_Witness ==
    /\ Raised("table", "AssertionError")
    /\ LaidOut
    /\ loc.k > Len(loc.collapsed)
    /\ loc.collapsed # <<>>
    /\ \E c \in 1..Len(args.columns) : loc.col_widths[c] < 4

\* C4: for a table of one row, only the r == 0 branch runs after the row's
\* lines: the output is the top border, the row's lines, then a "=" divider
\* if header, else a "-" divider with "|" edges if row_dividers, else nothing;
\* no "+"-edged closing border follows.
C4_SingleRowHasNoClosingBorder ==
    (Returned("table") /\ n_rows = 1) =>
        LET most == MaxSeq([c \in 1..Len(args.columns) |-> Len(loc.wrapped_cols[c][1])])
            out == ret.val
            tw == loc.table_width
        IN  /\ Len(out) = 1 + most + (IF args.header \/ args.row_dividers THEN 1 ELSE 0)
            /\ out[1] = <<"+">> \o Rep("-", tw - 2) \o <<"+">>
            /\ \A i \in 2..(most + 1) : out[i][1] = "|" /\ out[i][2] = " "
            /\ args.header => out[most + 2] = <<"|">> \o Rep("=", tw - 2) \o <<"|">>
            /\ (~args.header /\ args.row_dividers) =>
                   out[most + 2] = <<"|">> \o Rep("-", tw - 2) \o <<"|">>
            /\ \A i \in 2..Len(out) : out[i][1] # "+"

\* a one-row table of two columns, a cell wrapped, no header and no dividers:
\* the output ends with a cell line
C4_Witness ==
    /\ Returned("table")
    /\ n_rows = 1
    /\ Len(args.columns) >= 2
    /\ ~args.header
    /\ ~args.row_dividers
    /\ Len(ret.val) >= 3
    /\ ret.val[Len(ret.val)][2] = " "

\* C9: each transfer raises the collapsed column (width w) to exactly 4 and
\* lowers the donor by exactly 4 - w from its current width; so when the pass
\* completes without raising, every flagged column has width 4 and the
\* allocated widths sum to table_width - 1.
C9_RedistributeReachesFour ==
    /\ [](( LaidOut /\ pc = "table_redistribute" /\ loc.k > Len(loc.collapsed)) =>
            /\ \A j \in 1..Len(loc.collapsed) : loc.col_widths[loc.collapsed[j][1]] = 4
            /\ SumSeq(loc.col_widths) = loc.table_width - 1)
    /\ [][(pc = "table_redistribute" /\ pc' = "table_redistribute") =>
            LET i == loc.collapsed[loc.k][1]
                w == loc.collapsed[loc.k][2]
                donor == loc.extra[1][2]
            IN  /\ loc'.col_widths[i] = 4
                /\ loc'.col_widths[donor] = loc.col_widths[donor] - (4 - w)]_vars

====
